---- MODULE Spec2Model ----
(***************************************************************************)
(* A model of dependency-confusion-finder.py: the command line, the SBOM   *)
(* source (an existing file or a Trivy scan), the purl extraction, the     *)
(* per-purl identity parsing and registry lookup, and the report write.    *)
(*                                                                         *)
(* Text is a sequence of one-character strings, so that str.split, the     *)
(* lexical order of sorted() and the padding of the f-strings are computed *)
(* as Python computes them.  The fixed pieces of a message (a tag, a URL   *)
(* prefix) are single elements of such a sequence.  A pathlib.Path is the  *)
(* sequence of its parts.                                                  *)
(***************************************************************************)
EXTENDS Integers, Sequences, FiniteSets, TLC

\* The longest "components" array of an SBOM document.
MaxComponents == 2

(***************************************************************************)
(* Python values                                                           *)
(***************************************************************************)

\* Python's None, distinct from every text and every path.
None == <<"None">>

\* Python truthiness of an Optional[str]: None and "" are false.
Truthy(x) == x # None /\ x # <<>>

\* The characters the model's texts use, in code-point order.
Alphabet ==
    <<" ", "/", "1", "2", ":", "@", "a", "b", "c", "e", "g", "i", "k", "m",
      "n", "p", "y">>

\* ord(c), up to an order-preserving renumbering.
ord(c) == CHOOSE i \in 1..Len(Alphabet) : Alphabet[i] = c

\* a < b for Python strings: the first differing character decides, a proper
\* prefix is smaller.
RECURSIVE StrLess(_, _)
StrLess(a, b) ==
    IF a = <<>> THEN b # <<>>
    ELSE IF b = <<>> THEN FALSE
    ELSE IF Head(a) = Head(b) THEN StrLess(Tail(a), Tail(b))
    ELSE ord(Head(a)) < ord(Head(b))

\* sorted(S) for a set of strings.
RECURSIVE sorted(_)
sorted(S) ==
    IF S = {} THEN <<>>
    ELSE LET m == CHOOSE x \in S : \A y \in S \ {x} : StrLess(x, y)
         IN  <<m>> \o sorted(S \ {m})

\* s.find(c) + 1: the index of the first c in s, 0 when there is none.
Find(s, c) ==
    IF \E i \in 1..Len(s) : s[i] = c
    THEN CHOOSE i \in 1..Len(s) : s[i] = c /\ \A j \in 1..(i - 1) : s[j] # c
    ELSE 0

\* s.split(c, 1): one part when c is absent, else the text before the first c
\* and the text after it.
split1(s, c) ==
    LET i == Find(s, c)
    IN  IF i = 0 THEN <<s>>
        ELSE <<SubSeq(s, 1, i - 1), SubSeq(s, i + 1, Len(s))>>

\* f"{eco:<5}": left-aligned in a field of at least five characters.
PadEco(eco) ==
    IF Len(eco) >= 5 THEN eco
    ELSE eco \o [i \in 1..(5 - Len(eco)) |-> " "]

(***************************************************************************)
(* The inputs                                                              *)
(***************************************************************************)

\* The purls the components may carry.
PurlUniverse ==
    { <<"p","k","g",":","n","p","m","/","a","@","1">>,
      <<"p","k","g",":","n","p","m","/","a","@","2">>,
      <<"p","k","g",":","p","y","p","i","/","b">>,
      <<"p","k","g",":","g","e","m","/","c","@","1">>,
      <<"p","k","g",":","n","p","m","/","@","a">>,
      <<"p","k","g",":","/","a">>,
      <<"p","k","g",":","n","p","m">>,
      <<"n","p","m","/","a">> }

\* A component: with a purl, with an empty purl, or without the field.
ComponentUniverse ==
    {[purl |-> p] : p \in PurlUniverse \cup {<<>>}} \cup {[name |-> <<"a">>]}

\* The components of the SBOMs that are processed twice: two packages, and
\* a purl that is skipped.
TwoRunsComponents ==
    { [purl |-> <<"p","k","g",":","n","p","m","/","a","@","1">>],
      [purl |-> <<"p","k","g",":","p","y","p","i","/","b">>],
      [purl |-> <<"p","k","g",":","n","p","m">>] }

SeqsUpTo(S, n) == UNION {[1..k -> S] : k \in 0..n}

Range(s) == {s[i] : i \in 1..Len(s)}

\* The JSON documents: with a "components" array, or without the key.
SbomDocs(C) ==
    {[components |-> cs] : cs \in SeqsUpTo(C, MaxComponents)}
        \cup {[bomFormat |-> "CycloneDX"]}

\* What a path may hold: nothing, text that is not JSON, or a JSON document.
Missing == [kind |-> "missing"]
Malformed == [kind |-> "malformed"]
JsonFile(doc) == [kind |-> "json", data |-> doc]
TextFile(text) == [kind |-> "text", text |-> text]

SbomFiles(C) == {Missing, Malformed} \cup {JsonFile(d) : d \in SbomDocs(C)}

\* The paths of a run.
SbomInPath == <<"in.json">>
DefaultSbomOut == <<"sbom.json">>
DefaultReportOut == <<"dependency_confusion_report.txt">>
GivenReportOut == <<"report.txt">>
Paths == {SbomInPath, DefaultSbomOut, DefaultReportOut, GivenReportOut}

\* The options a command line may supply (sys.argv[1:], each with its value).
Options == {"--directory", "--sbom-in", "--report-out"}

\* What the registry may answer to a GET: a status code, or an exception.
StatusCodes == {200, 404, 500}
Responses ==
    {[raised |-> FALSE, status_code |-> c] : c \in StatusCodes}
        \cup {[raised |-> TRUE, status_code |-> 0]}

\* subprocess return codes of the scan: an exit code, or minus a signal.
ScanReturnCodes == {0, 1, 2, -9}

\* The outcomes of "trivy --version".
TrivyVersionOutcomes == {"ok", "FileNotFoundError", "CalledProcessError"}

VARIABLES
    pc,            \* where the run is
    argv,          \* the options of the command line
    args,          \* the parsed arguments
    fs,            \* the files, by path
    sbom_path,     \* main's sbom_path
    purls,         \* main's purls
    idx,           \* the position of the for loop in purls
    report_lines,  \* main's report_lines
    io,            \* the processes run, files read and written, GETs issued
    stderr,        \* the diagnostics printed
    stdout,        \* the messages printed
    exit_status,   \* the process's exit status, -1 while it runs
    run,           \* 1, or 2 when the program is run a second time
    prev           \* in a second run: the first run's io and report, and
                   \* whether the SBOM is the document of the first run

vars ==
    <<pc, argv, args, fs, sbom_path, purls, idx, report_lines, io, stderr,
      stdout, exit_status, run, prev>>

(***************************************************************************)
(* The functions of the program                                            *)
(***************************************************************************)

\* The set comprehension of parse_purls: the truthy purl values.
PurlSet(data) ==
    LET components ==
            IF "components" \in DOMAIN data THEN data.components ELSE <<>>
    IN  { components[i].purl :
            i \in { j \in 1..Len(components) :
                      /\ "purl" \in DOMAIN components[j]
                      /\ Truthy(components[j].purl) } }

\* The truthy purl values in the order of the components, repeated as the
\* components repeat them.
PurlList(data) ==
    LET components ==
            IF "components" \in DOMAIN data THEN data.components ELSE <<>>
        kept == SelectSeq(components,
                          LAMBDA c : "purl" \in DOMAIN c /\ Truthy(c.purl))
    IN  [i \in 1..Len(kept) |-> kept[i].purl]

\* parse_purls without the set: sorted([...]), every occurrence kept.
RECURSIVE Repeated(_, _)
Repeated(ordered, list) ==
    IF ordered = <<>> THEN <<>>
    ELSE SelectSeq(list, LAMBDA p : p = Head(ordered))
             \o Repeated(Tail(ordered), list)

parse_purls_no_set(data) == Repeated(sorted(PurlSet(data)), PurlList(data))

\* parse_purls without the sort: the distinct values in the order of their
\* first occurrence.
parse_purls_no_sort(data) ==
    LET list == PurlList(data)
        first == {i \in 1..Len(list) : \A j \in 1..(i - 1) : list[j] # list[i]}
        RECURSIVE Pick(_)
        Pick(i) ==
            IF i > Len(list) THEN <<>>
            ELSE (IF i \in first THEN <<list[i]>> ELSE <<>>) \o Pick(i + 1)
    IN  Pick(1)

\* parse_purls on a document that was loaded.
parse_purls(data) == sorted(PurlSet(data))

\* extract_pkg_info: <<ecosystem, pkg_name>>, or <<None, None>> when an
\* unpacking raises ValueError.
extract_pkg_info(purl) ==
    LET p1 == split1(purl, ":")
    IN  IF Len(p1) # 2 THEN <<None, None>>
        ELSE LET p2 == split1(p1[2], "/")
             IN  IF Len(p2) # 2 THEN <<None, None>>
                 ELSE <<p2[1], split1(p2[2], "@")[1]>>

\* main's test as "is None": an empty ecosystem or name passes.
IsSkipped_none_only(purl) ==
    LET pair == extract_pkg_info(purl)
    IN  pair[1] = None \/ pair[2] = None

\* main's test of the pair extract_pkg_info returned.
IsSkipped(purl) ==
    LET pair == extract_pkg_info(purl)
    IN  ~Truthy(pair[1]) \/ ~Truthy(pair[2])

\* check_public_registry without its last else: every ecosystem but pypi is
\* asked at the npm registry.
RegistryUrl_no_else(ecosystem, name) ==
    IF ecosystem = <<"p","y","p","i">>
    THEN <<"https://pypi.org/pypi/">> \o name \o <<"/json">>
    ELSE <<"https://registry.npmjs.org/">> \o name

\* The URL check_public_registry asks, None for an unsupported ecosystem.
RegistryUrl(ecosystem, name) ==
    IF ecosystem = <<"p","y","p","i">>
    THEN <<"https://pypi.org/pypi/">> \o name \o <<"/json">>
    ELSE IF ecosystem = <<"n","p","m">>
    THEN <<"https://registry.npmjs.org/">> \o name
    ELSE None

\* check_public_registry with the test for 200 left out: every answer but 404
\* counts as "exists".
check_public_registry_no_200(ecosystem, name, resp) ==
    IF RegistryUrl(ecosystem, name) = None THEN "None"
    ELSE IF resp.raised THEN "None"
    ELSE IF resp.status_code = 404 THEN "False"
    ELSE "True"

\* check_public_registry's result, given the answer to its GET (which is not
\* consulted for an unsupported ecosystem).
check_public_registry(ecosystem, name, resp) ==
    IF RegistryUrl(ecosystem, name) = None THEN "None"
    ELSE IF resp.raised THEN "None"
    ELSE IF resp.status_code = 404 THEN "False"
    ELSE IF resp.status_code = 200 THEN "True"
    ELSE "None"

\* The report line main appends for a result of check_public_registry.
ReportLine(eco, name, exists) ==
    IF exists = "False"
    THEN <<"[OK]   ">> \o PadEco(eco) \o <<" ">> \o name
             \o <<" not found publicly">>
    ELSE IF exists = "True"
    THEN <<"[WARN] ">> \o PadEco(eco) \o <<" ">> \o name
             \o <<" EXISTS publicly - potential collision">>
    ELSE <<"[INFO] ">> \o PadEco(eco) \o <<" ">> \o name
             \o <<" unknown status or unsupported ecosystem">>

\* "\n".join(report_lines).
RECURSIVE Join(_)
Join(lines) ==
    IF lines = <<>> THEN <<>>
    ELSE IF Len(lines) = 1 THEN lines[1]
    ELSE lines[1] \o <<"\n">> \o Join(Tail(lines))

\* sys.exit(n): the status the parent sees is n modulo 256.
ExitStatus(n) == n % 256

(***************************************************************************)
(* The run                                                                 *)
(***************************************************************************)

Fresh ==
    /\ pc = "start"
    /\ args = [directory |-> None, sbom_in |-> None, sbom_out |-> None,
               report_out |-> None]
    /\ sbom_path = None
    /\ purls = <<>>
    /\ idx = 1
    /\ report_lines = <<>>
    /\ io = <<>>
    /\ stderr = <<>>
    /\ stdout = <<>>
    /\ exit_status = -1

Init ==
    /\ Fresh
    /\ argv \in SUBSET Options
    /\ \E f \in SbomFiles(ComponentUniverse) :
          fs = [p \in Paths |->
                  IF p = SbomInPath /\ "--sbom-in" \in argv THEN f
                  ELSE Missing]
    /\ run = 1
    /\ prev = [io |-> <<>>, report |-> Missing, same_sbom |-> TRUE]

\* sys.exit(1) where the code passes a status on.
Exit_always_1(n) ==
    /\ pc' = "exited"
    /\ exit_status' = 1

\* sys.exit(n).
Exit(n) ==
    /\ pc' = "exited"
    /\ exit_status' = ExitStatus(n)

\* The required, mutually exclusive group without required=True.
GroupError_not_required(options) ==
    "--directory" \in options /\ "--sbom-in" \in options

\* The required, mutually exclusive group of --directory and --sbom-in:
\* parse_args rejects a command line with both or with neither.
GroupError(options) ==
    ("--directory" \in options) = ("--sbom-in" \in options)

\* main, lines 84-118: the parser is built, and the command line parsed.
ParseArgs ==
    /\ pc = "start"
    /\ IF argv = {}
       THEN /\ stdout' = Append(stdout, <<"help">>)
            /\ Exit(1)
            /\ UNCHANGED <<args, stderr>>
       ELSE IF GroupError(argv)
       THEN /\ stderr' = Append(stderr, <<"usage">>)
            /\ Exit(2)
            /\ UNCHANGED <<args, stdout>>
       ELSE /\ args' =
                 [directory |->
                     IF "--directory" \in argv THEN <<"dir">> ELSE None,
                  sbom_in |->
                     IF "--sbom-in" \in argv THEN SbomInPath ELSE None,
                  sbom_out |-> DefaultSbomOut,
                  report_out |->
                     IF "--report-out" \in argv THEN GivenReportOut
                     ELSE DefaultReportOut]
            /\ pc' = "resolve"
            /\ UNCHANGED <<stdout, stderr, exit_status>>
    /\ UNCHANGED <<argv, fs, sbom_path, purls, idx, report_lines, io, run, prev>>

\* main reading the --sbom-out path whatever the mode.
UseSbomIn_reads_sbom_out ==
    /\ pc = "resolve"
    /\ args.sbom_in # None
    /\ sbom_path' = args.sbom_out
    /\ pc' = "parse"
    /\ UNCHANGED <<argv, args, fs, purls, idx, report_lines, io, stderr,
                   stdout, exit_status, run, prev>>

\* main, lines 121-122: an existing SBOM is used as it is.
UseSbomIn ==
    /\ pc = "resolve"
    /\ args.sbom_in # None
    /\ sbom_path' = args.sbom_in
    /\ pc' = "parse"
    /\ UNCHANGED <<argv, args, fs, purls, idx, report_lines, io, stderr,
                   stdout, exit_status, run, prev>>

\* check_trivy.
CheckTrivy ==
    /\ pc = "resolve"
    /\ args.sbom_in = None
    /\ \E outcome \in TrivyVersionOutcomes :
          /\ io' = Append(io, [op |-> "exec", cmd |-> <<"trivy", "--version">>,
                               outcome |-> outcome])
          /\ IF outcome = "ok"
             THEN /\ pc' = "generate"
                  /\ UNCHANGED <<stderr, exit_status>>
             ELSE /\ stderr' =
                        Append(stderr, <<"Error: Trivy is not installed">>)
                  /\ Exit(1)
    /\ UNCHANGED <<argv, args, fs, sbom_path, purls, idx, report_lines,
                   stdout, run, prev>>

\* generate_sbom, and main's line 126.
GenerateSbom ==
    /\ pc = "generate"
    /\ stdout' = Append(stdout, <<"Generating SBOM -> ">> \o args.sbom_out)
    /\ \E returncode \in ScanReturnCodes :
          /\ io' = Append(io, [op |-> "exec", cmd |-> <<"trivy", "fs">>,
                               returncode |-> returncode])
          /\ IF returncode = 0
             THEN /\ \E f \in SbomFiles(ComponentUniverse) :
                        fs' = [fs EXCEPT ![args.sbom_out] = f]
                  /\ sbom_path' = args.sbom_out
                  /\ pc' = "parse"
                  /\ UNCHANGED <<stderr, exit_status>>
             ELSE /\ stderr' =
                        Append(stderr,
                               <<"Error: Trivy SBOM generation failed">>)
                  /\ Exit(returncode)
                  /\ UNCHANGED <<fs, sbom_path>>
    /\ UNCHANGED <<argv, args, purls, idx, report_lines, run, prev>>

\* parse_purls, and main's lines 129-134.
ParsePurls ==
    /\ pc = "parse"
    /\ io' = Append(io, [op |-> "read", path |-> sbom_path])
    /\ IF fs[sbom_path].kind = "json"
       THEN /\ purls' = parse_purls(fs[sbom_path].data)
            /\ stderr' =
                  IF purls' = <<>>
                  THEN Append(stderr, <<"No PURLs found in SBOM.">>)
                  ELSE stderr
            /\ report_lines' = <<>>
            /\ idx' = 1
            /\ pc' = "loop"
            /\ UNCHANGED exit_status
       ELSE /\ stderr' =
                  Append(stderr, <<"Error: Failed to parse SBOM file">>)
            /\ Exit(1)
            /\ UNCHANGED <<purls, report_lines, idx>>
    /\ UNCHANGED <<argv, args, fs, sbom_path, stdout, run, prev>>

\* The for loop with a break where the code continues: it ends at the first
\* purl that is skipped.
LoopDone_break ==
    \/ idx > Len(purls)
    \/ idx > 1 /\ IsSkipped(purls[idx - 1])

\* The for loop is over when purls is exhausted.
LoopDone == idx > Len(purls)

\* One iteration of main's for loop, lines 135-146.
ProcessPurl ==
    /\ pc = "loop"
    /\ ~LoopDone
    /\ LET purl == purls[idx]
           eco == extract_pkg_info(purl)[1]
           name == extract_pkg_info(purl)[2]
           url == RegistryUrl(eco, name)
       IN  IF IsSkipped(purl)
           THEN /\ stderr' =
                      Append(stderr, <<"Skipping invalid PURL: ">> \o purl)
                /\ UNCHANGED <<report_lines, io>>
           ELSE \E resp \in Responses :
                  /\ io' =
                        IF url = None THEN io
                        ELSE Append(io, [op |-> "GET", url |-> url,
                                         resp |-> resp])
                  /\ stderr' =
                        IF url = None THEN stderr
                        ELSE IF resp.raised
                        THEN Append(stderr, <<"Error: Network error">>)
                        ELSE IF resp.status_code \notin {200, 404}
                        THEN Append(stderr, <<"Warning: Unexpected status">>)
                        ELSE stderr
                  /\ report_lines' =
                        Append(report_lines,
                               ReportLine(eco, name,
                                          check_public_registry(eco, name,
                                                                resp)))
    /\ idx' = idx + 1
    /\ UNCHANGED <<pc, argv, args, fs, sbom_path, purls, stdout, exit_status,
                   run, prev>>

\* main, lines 149-155: the report is written, or the write fails.
WriteReport ==
    /\ pc = "loop"
    /\ LoopDone
    /\ io' = Append(io, [op |-> "write", path |-> args.report_out])
    /\ \E written \in BOOLEAN :
          IF written
          THEN /\ fs' = [fs EXCEPT ![args.report_out] =
                                       TextFile(Join(report_lines))]
               /\ stdout' =
                     Append(stdout, <<"Dependency confusion report written">>)
               /\ pc' = "exited"
               /\ exit_status' = 0
               /\ UNCHANGED stderr
          ELSE /\ stderr' =
                     Append(stderr, <<"Error: Unable to write report file">>)
               /\ Exit(1)
               /\ UNCHANGED <<fs, stdout>>
    /\ UNCHANGED <<argv, args, sbom_path, purls, idx, report_lines, run, prev>>

Next ==
    \/ ParseArgs
    \/ UseSbomIn
    \/ CheckTrivy
    \/ GenerateSbom
    \/ ParsePurls
    \/ ProcessPurl
    \/ WriteReport

Spec == Init /\ [][Next]_vars

\* The program is run again on an SBOM that holds the same components, in
\* another order or repeated; the first run's report stays on disk.
Rerun ==
    /\ run = 1
    /\ pc = "exited"
    /\ exit_status = 0
    /\ args.sbom_in # None
    /\ \E cs \in SeqsUpTo(TwoRunsComponents, MaxComponents) :
          /\ Range(cs) = Range(fs[sbom_path].data.components)
          /\ fs' = [fs EXCEPT ![sbom_path] = JsonFile([components |-> cs])]
    /\ prev' = [io |-> io, report |-> fs[args.report_out],
                same_sbom |-> fs'[sbom_path] = fs[sbom_path]]
    /\ run' = 2
    /\ pc' = "start"
    /\ args' = [directory |-> None, sbom_in |-> None, sbom_out |-> None,
                report_out |-> None]
    /\ sbom_path' = None
    /\ purls' = <<>>
    /\ idx' = 1
    /\ report_lines' = <<>>
    /\ io' = <<>>
    /\ stderr' = <<>>
    /\ stdout' = <<>>
    /\ exit_status' = -1
    /\ UNCHANGED argv

\* The first run of a pair: an existing SBOM with a "components" array.
InitTwoRuns ==
    /\ Init
    /\ "--sbom-in" \in argv
    /\ "--directory" \notin argv
    /\ fs[SbomInPath].kind = "json"
    /\ "components" \in DOMAIN fs[SbomInPath].data
    /\ Range(fs[SbomInPath].data.components) \subseteq TwoRunsComponents

\* With an existing SBOM no step of the scan is taken.
NextTwoRuns ==
    \/ ParseArgs
    \/ UseSbomIn
    \/ ParsePurls
    \/ ProcessPurl
    \/ WriteReport
    \/ Rerun

SpecTwoRuns == InitTwoRuns /\ [][NextTwoRuns]_vars

\* Once the SBOM is parsed the single thread takes its every step: an
\* iteration of the loop blocks for the GET's timeout at most, and the report
\* write follows the loop.
\* The fairness of ProcessPurl is weak fairness written out, with the
\* action's enabling condition, pc = "loop" /\ ~LoopDone, in the place of
\* ENABLED <<ProcessPurl>>_vars (every iteration changes idx).
FairSpec ==
    /\ Spec
    /\ []<>(~(pc = "loop" /\ ~LoopDone)) \/ []<><<ProcessPurl>>_vars
    /\ WF_vars(WriteReport)

\* The enabling condition used in FairSpec is that of ProcessPurl.
ProcessPurlEnabling ==
    (ENABLED <<ProcessPurl>>_vars) <=> (pc = "loop" /\ ~LoopDone)

(***************************************************************************)
(* Properties                                                              *)
(***************************************************************************)

Last(s) == s[Len(s)]

Gets(trace) == SelectSeq(trace, LAMBDA e : e.op = "GET")

Count(s, Test(_)) == Len(SelectSeq(s, Test))

Pypi == <<"p","y","p","i">>
Npm == <<"n","p","m">>

Eco(purl) == extract_pkg_info(purl)[1]
Name(purl) == extract_pkg_info(purl)[2]

\* The text of a report line between its tag and its message: the padded
\* ecosystem, a space, the name.
IdentityText(purl) == PadEco(Eco(purl)) \o <<" ">> \o Name(purl)
LineTag(line) == line[1]
LineIdentity(line) == SubSeq(line, 2, Len(line) - 1)

\* The purls the loop has gone through, and those of them it did not skip.
Processed == SubSeq(purls, 1, idx - 1)
ProcessedValid == SelectSeq(Processed, LAMBDA p : ~IsSkipped(p))

\* The distinct non-empty purl values of a document's components.
ComponentsOf(data) ==
    IF "components" \in DOMAIN data THEN data.components ELSE <<>>
ComponentPurls(data) ==
    {c.purl : c \in {x \in Range(ComponentsOf(data)) : "purl" \in DOMAIN x}}
        \ {<<>>}

\* The run ended with the report written.
Completed == pc = "exited" /\ exit_status = 0

\* ---- C1 ----
\* The tag and text a registry answer calls for.
TagFor(resp) ==
    IF resp.raised THEN "[INFO] "
    ELSE IF resp.status_code = 404 THEN "[OK]   "
    ELSE IF resp.status_code = 200 THEN "[WARN] "
    ELSE "[INFO] "
MessageFor(tag) ==
    IF tag = "[OK]   " THEN " not found publicly"
    ELSE IF tag = "[WARN] " THEN " EXISTS publicly - potential collision"
    ELSE " unknown status or unsupported ecosystem"

C1_Step ==
    ( /\ pc = "loop"
      /\ idx <= Len(purls)
      /\ idx' = idx + 1
      /\ ~IsSkipped(purls[idx])
      /\ Eco(purls[idx]) \in {Pypi, Npm} )
    => /\ Len(io') = Len(io) + 1
       /\ Last(io').op = "GET"
       /\ report_lines' =
             Append(report_lines,
                    <<TagFor(Last(io').resp)>> \o IdentityText(purls[idx])
                        \o <<MessageFor(TagFor(Last(io').resp))>>)

\* C1: for a purl that parses and whose ecosystem is pypi or npm, the report
\* line is decided by the answer to its one GET: 404 gives [OK], 200 gives
\* [WARN], every other status and every network failure gives [INFO]; and no
\* line of any report carries another tag.
C1_TagByResponse ==
    /\ [][C1_Step]_vars
    /\ [](\A k \in 1..Len(report_lines) :
            LineTag(report_lines[k]) \in {"[OK]   ", "[WARN] ", "[INFO] "})

\* A run in which one lookup answered 200, another failed in the network, and
\* the report holds a [WARN] and an [INFO] line.
C1_Witness ==
    /\ Completed
    /\ \E i, j \in 1..Len(io) :
          /\ io[i].op = "GET" /\ ~io[i].resp.raised
          /\ io[i].resp.status_code = 200
          /\ io[j].op = "GET" /\ io[j].resp.raised
    /\ {LineTag(report_lines[k]) : k \in 1..Len(report_lines)}
          = {"[WARN] ", "[INFO] "}

\* ---- C2 ----
\* C2 as stated: in a completed run no two report lines carry the same
\* (ecosystem, name), and no registry URL is asked twice.
C2_OnePerIdentity ==
    Completed =>
        /\ \A i, j \in 1..Len(report_lines) :
              i # j => LineIdentity(report_lines[i])
                          # LineIdentity(report_lines[j])
        /\ \A i, j \in 1..Len(Gets(io)) :
              i # j => Gets(io)[i].url # Gets(io)[j].url

\* C2, amended: in a completed run there is exactly one report line per
\* distinct purl string that is not skipped, however often the components
\* repeat it, and one lookup per such purl of a supported ecosystem; an
\* (ecosystem, name) has as many lines, and its URL as many lookups, as there
\* are distinct valid purls that name it.
C2_OnePerPurl ==
    Completed =>
        LET valid == {p \in ComponentPurls(fs[sbom_path].data) : ~IsSkipped(p)}
        IN  /\ Len(report_lines) = Cardinality(valid)
            /\ \A q \in valid :
                  Count(report_lines,
                        LAMBDA l : LineIdentity(l) = IdentityText(q))
                    = Cardinality({p \in valid :
                                     IdentityText(p) = IdentityText(q)})
            /\ \A q \in valid :
                  Eco(q) \in {Pypi, Npm} =>
                      Count(Gets(io),
                            LAMBDA e : e.url = RegistryUrl(Eco(q), Name(q)))
                        = Cardinality({p \in valid :
                                         /\ Eco(p) = Eco(q)
                                         /\ Name(p) = Name(q)})

\* A completed run on two components with the same valid purl: one line.
C2_Witness ==
    /\ Completed
    /\ Len(ComponentsOf(fs[sbom_path].data)) = 2
    /\ ComponentsOf(fs[sbom_path].data)[1] = ComponentsOf(fs[sbom_path].data)[2]
    /\ Len(report_lines) = 1

\* ---- C3 ----
\* C3: with K components carrying a non-empty purl, parse_purls returns at
\* most K elements, none twice, none empty or absent, in ascending lexical
\* order, and exactly the distinct non-empty purl values of the components.
C3_ParsePurls ==
    pc = "loop" =>
        LET data == fs[sbom_path].data
            cs == ComponentsOf(data)
            K == Cardinality({i \in 1..Len(cs) :
                                "purl" \in DOMAIN cs[i] /\ cs[i].purl # <<>>})
        IN  /\ Len(purls) <= K
            /\ \A i, j \in 1..Len(purls) : i # j => purls[i] # purls[j]
            /\ \A i \in 1..Len(purls) : purls[i] # <<>> /\ purls[i] # None
            /\ \A i \in 1..(Len(purls) - 1) : StrLess(purls[i], purls[i + 1])
            /\ Range(purls) = ComponentPurls(data)

\* Two components with purls, given out of order, were parsed.
C3_Witness ==
    /\ pc = "loop"
    /\ Len(purls) = 2
    /\ LET cs == ComponentsOf(fs[sbom_path].data)
       IN  Len(cs) = 2 /\ cs[1].purl = purls[2] /\ cs[2].purl = purls[1]

\* ---- C4 ----
\* The purls the run logged as invalid.
SkippedLogged ==
    {Tail(m) : m \in {x \in Range(stderr) : x[1] = "Skipping invalid PURL: "}}

\* The purl has no ':' or no '/' after its first ':'.
LacksColonOrSlash(purl) ==
    ~\E i, j \in 1..Len(purl) : i < j /\ purl[i] = ":" /\ purl[j] = "/"

\* For a purl with a ':' and a later '/': the places of the first ':', of the
\* first '/' after it, and of the first '@' after that (or the end).
ColonAt(purl) == CHOOSE i \in 1..Len(purl) :
    purl[i] = ":" /\ \A k \in 1..(i - 1) : purl[k] # ":"
SlashAt(purl) == CHOOSE j \in (ColonAt(purl) + 1)..Len(purl) :
    purl[j] = "/" /\ \A k \in (ColonAt(purl) + 1)..(j - 1) : purl[k] # "/"
AtAt(purl) == CHOOSE a \in (SlashAt(purl) + 1)..(Len(purl) + 1) :
    /\ a <= Len(purl) => purl[a] = "@"
    /\ \A k \in (SlashAt(purl) + 1)..(a - 1) : purl[k] # "@"
EcoText(purl) == SubSeq(purl, ColonAt(purl) + 1, SlashAt(purl) - 1)
NameText(purl) == SubSeq(purl, SlashAt(purl) + 1, AtAt(purl) - 1)

\* C4 as stated: a processed purl is skipped (logged, no line) exactly when it
\* has no ':' or no '/' after the first ':', and the report has one line for
\* every other purl.
C4_SkippedIffNoColonOrSlash ==
    /\ \A p \in Range(Processed) : (p \in SkippedLogged) <=> LacksColonOrSlash(p)
    /\ Len(report_lines)
         = Cardinality({p \in Range(Processed) : ~LacksColonOrSlash(p)})

\* C4, amended: a processed purl is skipped (logged as invalid, no lookup, no
\* line) exactly when it has no ':', or no '/' after the first ':', or an
\* empty ecosystem between the two, or an empty name between that '/' and the
\* first following '@'; every other purl gets one report line, carrying the
\* ecosystem and that name; and a skip never ends the run: the loop is left
\* only with every purl processed, for the report write.
C4_SkippedIffNoIdentity ==
    LET invalid(p) ==
            \/ LacksColonOrSlash(p)
            \/ EcoText(p) = <<>>
            \/ NameText(p) = <<>>
        kept == SelectSeq(Processed, LAMBDA p : ~invalid(p))
    IN  /\ \A p \in Range(Processed) : (p \in SkippedLogged) <=> invalid(p)
        /\ Len(report_lines) = Len(kept)
        /\ \A k \in 1..Len(kept) :
              LineIdentity(report_lines[k])
                = PadEco(EcoText(kept[k])) \o <<" ">> \o NameText(kept[k])
        /\ Len(Gets(io)) <= Len(kept)
        /\ (pc = "exited" /\ purls # <<>>)
              => Processed = purls /\ Last(io).op = "write"

\* A completed run that skipped a purl with a ':' and a '/' but no name, and
\* wrote a line for the other purl.
C4_Witness ==
    /\ Completed
    /\ Len(purls) = 2
    /\ Len(report_lines) = 1
    /\ \E p \in SkippedLogged : ~LacksColonOrSlash(p)

\* ---- C5 ----
\* The run went through the loop and to the report write.
AfterWrite == pc = "exited" /\ io # <<>> /\ Last(io).op = "write"

\* The purls are processed one at a time, in the order of purls; the loop is
\* left only when each of them was processed; and the loop is always followed
\* by the report write.
C5_Progress ==
    /\ [][(pc = "loop" /\ pc' = "loop") => (idx' = idx + 1 /\ purls' = purls)]_vars
    /\ [][(pc = "loop" /\ pc' # "loop") => Processed = purls]_vars
    /\ (pc = "loop") ~> (AfterWrite /\ Processed = purls)

\* C5 as stated: once the SBOM is parsed every purl is processed in turn,
\* whatever became of the earlier ones, and the run reaches the report write;
\* with no purl the run writes an empty report and exits with status 0.
C5_AlwaysWritesAndExitsZero ==
    /\ C5_Progress
    /\ []((AfterWrite /\ purls = <<>>)
            => (exit_status = 0 /\ fs[args.report_out] = TextFile(<<>>)))

\* C5, amended: once the SBOM is parsed every purl is processed in turn,
\* whatever became of the earlier ones, and the run reaches the report write;
\* with no purl the run attempts the write of an empty report, and it exits
\* with status 0 and an empty report file when that write succeeds, with
\* status 1 and no report when it fails.
C5_ReachesReportWrite ==
    /\ C5_Progress
    /\ []((AfterWrite /\ purls = <<>>)
            => /\ report_lines = <<>>
               /\ \/ exit_status = 0 /\ fs[args.report_out] = TextFile(<<>>)
                  \/ exit_status = 1 /\ fs[args.report_out] = Missing)

\* A completed run whose first purl was skipped and whose second met a
\* network error.
C5_Witness ==
    /\ Completed
    /\ Len(purls) = 2
    /\ IsSkipped(purls[1])
    /\ Len(Gets(io)) = 1
    /\ Gets(io)[1].resp.raised
    /\ Len(report_lines) = 1

\* ---- C6 ----
\* The run ended on a fatal error of the SBOM source or of its parsing.
FatalBeforeLoop ==
    pc = "exited" /\ io # <<>> /\ Last(io).op \in {"exec", "read"}

\* C6: without the tool the run ends with status 1 and the scan is not
\* invoked; a scan that exits with a non-zero code ends the run with that
\* code; a missing or malformed SBOM ends it with status 1; and in each case
\* no lookup was made, no report path was written and the status is not 0.
C6_FatalErrors ==
    FatalBeforeLoop =>
        /\ exit_status # 0
        /\ \A i \in 1..Len(io) : io[i].op \notin {"GET", "write"}
        /\ fs[DefaultReportOut] = Missing /\ fs[GivenReportOut] = Missing
        /\ report_lines = <<>>
        /\ Last(io).op = "read" => exit_status = 1
        /\ (Last(io).op = "exec" /\ Last(io).cmd = <<"trivy", "--version">>)
              => exit_status = 1 /\ Len(io) = 1
        /\ (Last(io).op = "exec" /\ Last(io).cmd = <<"trivy", "fs">>)
              => /\ Last(io).returncode # 0
                 /\ Last(io).returncode > 0
                       => exit_status = Last(io).returncode

\* The scan exited with code 2 and so did the run.
C6_Witness ==
    /\ FatalBeforeLoop
    /\ Last(io).op = "exec"
    /\ Last(io).cmd = <<"trivy", "fs">>
    /\ Last(io).returncode = 2
    /\ exit_status = 2

\* ---- C7 ----
\* C7: the GETs issued are, in order, one for each processed purl that parses
\* and has ecosystem pypi or npm, and none for any other purl, whose line is
\* [INFO]; a GET is not repeated whatever its answer.
C7_OneGetPerSupportedPurl ==
    LET supported == SelectSeq(ProcessedValid,
                               LAMBDA p : EcoText(p) \in {Pypi, Npm})
    IN  /\ Len(Gets(io)) = Len(supported)
        /\ \A k \in 1..Len(supported) :
              Gets(io)[k].url
                = IF EcoText(supported[k]) = Pypi
                  THEN <<"https://pypi.org/pypi/">> \o NameText(supported[k])
                           \o <<"/json">>
                  ELSE <<"https://registry.npmjs.org/">>
                           \o NameText(supported[k])
        /\ Len(report_lines) = Len(ProcessedValid)
        /\ \A k \in 1..Len(report_lines) :
              EcoText(ProcessedValid[k]) \notin {Pypi, Npm}
                  => LineTag(report_lines[k]) = "[INFO] "

\* A completed run over a purl of an unsupported ecosystem and a purl whose
\* lookup failed in the network: one GET, two lines.
C7_Witness ==
    /\ Completed
    /\ Len(report_lines) = 2
    /\ Len(Gets(io)) = 1
    /\ Gets(io)[1].resp.raised
    /\ \E p \in Range(purls) : ~IsSkipped(p) /\ Eco(p) \notin {Pypi, Npm}

C9_SourceByMode ==
    /\ args.sbom_in # None =>
          /\ \A i \in 1..Len(io) :
                /\ io[i].op # "exec"
                /\ io[i].op \in {"read", "write"} => io[i].path # args.sbom_out
                /\ io[i].op = "read" => io[i].path = args.sbom_in
          /\ fs[args.sbom_out] = Missing
          /\ sbom_path \in {None, args.sbom_in}
    /\ (args.sbom_in = None /\ args.directory # None) =>
          /\ \A i \in 1..Len(io) :
                /\ io[i].op = "exec" =>
                      IF i = 1 THEN io[i].cmd = <<"trivy", "--version">>
                      ELSE /\ i = 2
                           /\ io[i].cmd = <<"trivy", "fs">>
                           /\ io[1].outcome = "ok"
                /\ io[i].op = "read" =>
                      /\ i = 3
                      /\ io[2].op = "exec" /\ io[2].returncode = 0
                      /\ io[i].path = args.sbom_out
                /\ i = 1 => io[i].op = "exec"
          /\ sbom_path \in {None, args.sbom_out}

\* A run with --directory that checked the tool, ran the scan and parsed the
\* SBOM the scan wrote.
C9_Witness ==
    /\ args.directory # None
    /\ pc = "loop"
    /\ Len(io) = 3
    /\ io[3] = [op |-> "read", path |-> DefaultSbomOut]
    /\ Len(purls) = 2

\* ---- C10 ----
\* Every URL that was asked more than once was answered the same way.
SameAnswers(trace) ==
    LET gets == Gets(trace)
    IN  \A i, j \in 1..Len(gets) :
            gets[i].url = gets[j].url => gets[i].resp = gets[j].resp

\* C10: a second run on an SBOM with the same components in another order or
\* repeated, answered by the registry as the first run was, writes the report
\* the first run wrote; and the report lines are those of the purls that were
\* not skipped, in the ascending lexical order of these purls.
C10_Reproducible ==
    /\ (run = 2 /\ Completed /\ SameAnswers(prev.io \o io))
          => fs[args.report_out] = prev.report
    /\ \A i \in 1..(Len(purls) - 1) : StrLess(purls[i], purls[i + 1])
    /\ LET valid == ProcessedValid
       IN  /\ Len(report_lines) = Len(valid)
           /\ \A k \in 1..Len(report_lines) :
                 LineIdentity(report_lines[k]) = IdentityText(valid[k])

\* A second run that completed on a different SBOM document, with a report of
\* two lines.
C10_Witness ==
    /\ run = 2
    /\ Completed
    /\ SameAnswers(prev.io \o io)
    /\ ~prev.same_sbom
    /\ Len(report_lines) = 2
    /\ fs[args.report_out] = prev.report

====
